---- MODULE Spec2Model ----
(***************************************************************************)
(* A model of the runtime bridge layer of cacao: the once-guarded          *)
(* registration of host subclasses, the delegate-pointer trampolines, and  *)
(* the widget handles (TextField, ListView) with their construction, clone *)
(* and drop behaviour, the row vendor and batch updates of the list view,  *)
(* and the file manager.                                                   *)
(*                                                                         *)
(* The module holds several state machines over disjoint groups of         *)
(* variables; each specification runs one of them and leaves the other     *)
(* groups parked in their initial value.                                   *)
(*   SpecRegistry : register_window_controller_class /                     *)
(*                  register_view_controller_class called from two threads *)
(*   SpecBridge   : the host sending lifecycle messages to a window        *)
(*                  controller and a view controller instance              *)
(*   SpecWidget   : TextField / ListView handles: with, clone_as_handle,   *)
(*                  add_subview, drop, and host callbacks                  *)
(*   SpecHandles  : TextField handles made by new() and by with(..), their *)
(*                  clones, add_subview and drop                           *)
(*   SpecVendor   : the Reusable Row Vendor of a ListView: register,       *)
(*                  dequeue, handle clones and the host reuse pool         *)
(*   SpecBatch    : perform_batch_updates with nested closures, closures   *)
(*                  that panic, and row edits sent to the host             *)
(*   SpecFile     : FileManager::get_directory and FileManager::move_item  *)
(*                  against a host file service that can fail              *)
(***************************************************************************)
EXTENDS Integers, Sequences, FiniteSets, TLC

VARIABLES
    \* ---- registry ----
    once,            \* [family -> state of the function's `static INIT: Once`]
    DELEGATE_CLASS,  \* [family -> the function's `static mut` class pointer]
    runtime,         \* host runtime class table: [class name -> class or NoClass]
    decl,            \* [family -> the ClassDecl being built inside call_once]
    pc,              \* [thread -> position inside the register function]
    callF,           \* [thread -> family of the call in progress]
    callT,           \* [thread -> callback type parameter T of the call]
    calls,           \* [thread -> number of calls started]
    results,         \* outcomes of the finished calls
    registerCount,   \* [family -> number of executions of decl.register()]
    allocated,       \* the instances made by allocate_view: family and class
    \* ---- bridge ----
    ivar,            \* [instance -> value of its delegate-pointer ivar]
    strong,          \* [address -> strong count of the callback owner]
    destroyed,       \* [address -> number of destructions of the owner]
    frame,           \* the trampoline activation in progress, or NoFrame
    invoked,         \* [selector -> number of host messages sent]
    sent,            \* messages sent to the view controller while they follow
                     \* the present-then-dismiss order, else OffScript
    seen,            \* the callback methods run for those messages
    \* ---- widgets ----
    hstate,          \* [handle -> "none" | "live" | "dropped"]
    hdelegate,       \* [handle -> its `delegate` field: an address or NoDelegate]
    withAt,          \* [widget -> index of the next statement of with()]
    slot,            \* [delegate ivar of a host object -> its value]
    heap,            \* [address -> "unallocated" | "live" | "freed"]
    dropCount,       \* [address -> number of destructions]
    superview,       \* [host view -> its superview, or Nil]
    tableWiring,     \* whether the table is its own delegate / data source
    toolkitRef,      \* [host view -> the toolkit holds a reference of its own]
    didLoad,         \* [widget -> number of did_load calls]
    lastDispatch,    \* what the last host callback read from its slot
    plain,           \* the handle TextField::new() returns and its view's parent
    \* ---- row vendor ----
    cellMaps,        \* [map -> the HashMap inside one CellFactory]
    mapOf,           \* [list-view handle -> the map its cell_factory points to]
    registeredVia,   \* [list-view handle -> identifiers registered through it]
    rows,            \* [host row -> its state, identifier and callback slot]
    last,            \* the last register / dequeue call and what it did
    \* ---- batch updates ----
    batchStack,      \* the perform_batch_updates calls whose closure is running
    hostUpdates,     \* beginUpdates the host received minus endUpdates
    batches,         \* number of perform_batch_updates calls started
    buffered,        \* row edits the host holds back until the updates end
    applied,         \* row edits the host has applied to the table
    \* ---- file manager ----
    files,           \* the paths that exist in the host file system
    resolvable,      \* the (directory, domain) pairs the host can resolve
    fsLast           \* the last FileManager call, the host's answer, the result

regVars == <<once, DELEGATE_CLASS, runtime, decl, pc, callF, callT, calls,
             results, registerCount, allocated>>
brVars  == <<ivar, strong, destroyed, frame, invoked, sent, seen>>
wVars   == <<hstate, hdelegate, withAt, slot, heap, dropCount, superview,
             tableWiring, toolkitRef, didLoad, lastDispatch, plain>>
vVars   == <<cellMaps, mapOf, registeredVia, rows, last>>
bVars   == <<batchStack, hostUpdates, batches, buffered, applied>>
fVars   == <<files, resolvable, fsLast>>
vars    == <<regVars, brVars, wVars, vVars, bVars, fVars>>
notReg  == <<brVars, wVars, vVars, bVars, fVars>>
notBr   == <<regVars, wVars, vVars, bVars, fVars>>
notW    == <<regVars, brVars, vVars, bVars, fVars>>
notV    == <<regVars, brVars, wVars, bVars, fVars>>
notB    == <<regVars, brVars, wVars, vVars, fVars>>
notF    == <<regVars, brVars, wVars, vVars, bVars>>

-----------------------------------------------------------------------------
(***************************************************************************)
(* Bounds.                                                                 *)
(***************************************************************************)
MaxCalls == 2          \* calls of a register function per thread
MaxInvocations == 2    \* host messages per selector
MaxClones == 2         \* handle clones made of one widget
MaxRows == 2           \* host rows the table allocates
MaxBatches == 3        \* perform_batch_updates calls
MaxEdits == 3          \* insert_rows / remove_rows calls

-----------------------------------------------------------------------------
(***************************************************************************)
(* Dynamic Subclass Registry                                               *)
(***************************************************************************)
Threads == {"t1", "t2"}
Families == {"window", "view"}
CallbackTypes == {"A", "B"}      \* two distinct types implementing the trait

\* `0 as *const Class`
NullClass == "null"

\* the name given to ClassDecl::new
ClassName(f) == IF f = "window" THEN "RSTWindowController" ELSE "RSTViewController"

\* the ivar name given to decl.add_ivar
PtrName(f) == IF f = "window" THEN "WINDOW_CONTROLLER_PTR" ELSE "VIEW_DELEGATE_PTR"

\* the selectors given to decl.add_method, in source order
Selectors(f) ==
    IF f = "window" THEN <<"windowWillClose:">>
    ELSE <<"viewWillAppear", "viewDidAppear", "viewWillDisappear", "viewDidDisappear">>

SelectorSet(f) == {Selectors(f)[i] : i \in 1..Len(Selectors(f))}

\* the free function a selector is bound to, monomorphized for T
Trampoline(sel, T) == [sel |-> sel, T |-> T]

NoClass == [kind |-> "none"]
\* a class of that name that the wrapper did not create
ForeignClass == [kind |-> "foreign"]
NoDecl == [kind |-> "none"]

Outcome(t, out, h, rej) ==
    [t |-> t, f |-> callF[t], T |-> callT[t], n |-> calls[t],
     out |-> out, h |-> h, rejected |-> rej]

InitRegistry ==
    /\ once = [f \in Families |-> "incomplete"]
    /\ DELEGATE_CLASS = [f \in Families |-> NullClass]
    /\ runtime \in [{ClassName(f) : f \in Families} -> {NoClass, ForeignClass}]
    /\ decl = [f \in Families |-> NoDecl]
    /\ pc = [t \in Threads |-> "idle"]
    /\ callF = [t \in Threads |-> "window"]
    /\ callT = [t \in Threads |-> "A"]
    /\ calls = [t \in Threads |-> 0]
    /\ results = {}
    /\ registerCount = [f \in Families |-> 0]
    /\ allocated = {}

ParkedRegistry ==
    /\ once = [f \in Families |-> "incomplete"]
    /\ DELEGATE_CLASS = [f \in Families |-> NullClass]
    /\ runtime = [n \in {ClassName(f) : f \in Families} |-> NoClass]
    /\ decl = [f \in Families |-> NoDecl]
    /\ pc = [t \in Threads |-> "idle"]
    /\ callF = [t \in Threads |-> "window"]
    /\ callT = [t \in Threads |-> "A"]
    /\ calls = [t \in Threads |-> 0]
    /\ results = {}
    /\ registerCount = [f \in Families |-> 0]
    /\ allocated = {}

\* a thread enters register_<family>_class::<T>()
Call(t, f, T) ==
    /\ pc[t] = "idle"
    /\ calls[t] < MaxCalls
    /\ pc' = [pc EXCEPT ![t] = "call_once"]
    /\ callF' = [callF EXCEPT ![t] = f]
    /\ callT' = [callT EXCEPT ![t] = T]
    /\ calls' = [calls EXCEPT ![t] = @ + 1]
    /\ UNCHANGED <<once, DELEGATE_CLASS, runtime, decl, results, registerCount>>
    /\ UNCHANGED <<allocated, notReg>>

\* a guard that runs the closure again on a later call
CallOnceNoGuard(t) ==
    /\ pc[t] = "call_once"
    /\ \/ /\ once[callF[t]] \in {"incomplete", "complete"}
          /\ once' = [once EXCEPT ![callF[t]] = "running"]
          /\ pc' = [pc EXCEPT ![t] = "decl_new"]
          /\ UNCHANGED results
       \/ /\ once[callF[t]] = "poisoned"
          /\ pc' = [pc EXCEPT ![t] = "idle"]
          /\ results' = results \cup {Outcome(t, "panic", NullClass, FALSE)}
          /\ UNCHANGED once
    /\ UNCHANGED <<DELEGATE_CLASS, runtime, decl, callF, callT, calls, registerCount>>
    /\ UNCHANGED <<allocated, notReg>>

\* a guard that lets a second caller through while the first is still inside
CallOnceNoWait(t) ==
    /\ pc[t] = "call_once"
    /\ \/ /\ once[callF[t]] = "incomplete"
          /\ once' = [once EXCEPT ![callF[t]] = "running"]
          /\ pc' = [pc EXCEPT ![t] = "decl_new"]
          /\ UNCHANGED results
       \/ /\ once[callF[t]] \in {"complete", "running"}
          /\ pc' = [pc EXCEPT ![t] = "read"]
          /\ UNCHANGED <<once, results>>
       \/ /\ once[callF[t]] = "poisoned"
          /\ pc' = [pc EXCEPT ![t] = "idle"]
          /\ results' = results \cup {Outcome(t, "panic", NullClass, FALSE)}
          /\ UNCHANGED once
    /\ UNCHANGED <<DELEGATE_CLASS, runtime, decl, callF, callT, calls, registerCount>>
    /\ UNCHANGED <<allocated, notReg>>

\* INIT.call_once(|| ...): std::sync::Once. The first caller runs the closure;
\* a caller that finds it running blocks until it has finished; a caller that
\* finds it complete goes on; a caller that finds it poisoned panics.
CallOnce(t) ==
    /\ pc[t] = "call_once"
    /\ \/ /\ once[callF[t]] = "incomplete"
          /\ once' = [once EXCEPT ![callF[t]] = "running"]
          /\ pc' = [pc EXCEPT ![t] = "decl_new"]
          /\ UNCHANGED results
       \/ /\ once[callF[t]] = "complete"
          /\ pc' = [pc EXCEPT ![t] = "read"]
          /\ UNCHANGED <<once, results>>
       \/ /\ once[callF[t]] = "poisoned"
          /\ pc' = [pc EXCEPT ![t] = "idle"]
          /\ results' = results \cup {Outcome(t, "panic", NullClass, FALSE)}
          /\ UNCHANGED once
    /\ UNCHANGED <<DELEGATE_CLASS, runtime, decl, callF, callT, calls, registerCount>>
    /\ UNCHANGED <<allocated, notReg>>

\* ClassDecl::new(name, superclass).unwrap(): None when the host runtime
\* already has a class of that name; unwrap then panics inside the closure,
\* which poisons the Once and unwinds out of the register function.
DeclNew(t) ==
    /\ pc[t] = "decl_new"
    /\ IF runtime[ClassName(callF[t])] = NoClass
       THEN /\ decl' = [decl EXCEPT ![callF[t]] =
                           [kind |-> "decl", ivars |-> <<>>, methods |-> {}]]
            /\ pc' = [pc EXCEPT ![t] = "add_ivar"]
            /\ UNCHANGED <<once, results>>
       ELSE /\ once' = [once EXCEPT ![callF[t]] = "poisoned"]
            /\ pc' = [pc EXCEPT ![t] = "idle"]
            /\ results' = results \cup {Outcome(t, "panic", NullClass, TRUE)}
            /\ UNCHANGED decl
    /\ UNCHANGED <<DELEGATE_CLASS, runtime, callF, callT, calls, registerCount>>
    /\ UNCHANGED <<allocated, notReg>>

\* decl.add_ivar::<usize>(PTR)
AddIvar(t) ==
    /\ pc[t] = "add_ivar"
    /\ decl' = [decl EXCEPT ![callF[t]].ivars = Append(@, PtrName(callF[t]))]
    /\ pc' = [pc EXCEPT ![t] = "add_method"]
    /\ UNCHANGED <<once, DELEGATE_CLASS, runtime, callF, callT, calls, results,
                   registerCount>>
    /\ UNCHANGED <<allocated, notReg>>

\* the trampoline the closure hands to add_method: the one monomorphized for
\* the T of the call that runs the closure
BoundTrampoline(sel, T) == Trampoline(sel, T)

\* decl.add_method(sel!(..), trampoline::<T>), one per step, in source order
AddMethod(t) ==
    /\ pc[t] = "add_method"
    /\ LET f == callF[t]
           k == Cardinality(decl[f].methods) + 1
       IN /\ decl' = [decl EXCEPT ![f].methods =
                         @ \cup {BoundTrampoline(Selectors(f)[k], callT[t])}]
          /\ pc' = [pc EXCEPT ![t] =
                         IF k = Len(Selectors(f)) THEN "register" ELSE "add_method"]
    /\ UNCHANGED <<once, DELEGATE_CLASS, runtime, callF, callT, calls, results,
                   registerCount>>
    /\ UNCHANGED <<allocated, notReg>>

\* DELEGATE_CLASS = decl.register(); the closure returns and the Once completes
Register(t) ==
    /\ pc[t] = "register"
    /\ LET f == callF[t]
       IN /\ runtime' = [runtime EXCEPT ![ClassName(f)] =
                            [kind |-> "wrapper", ivars |-> decl[f].ivars,
                             methods |-> decl[f].methods]]
          /\ DELEGATE_CLASS' = [DELEGATE_CLASS EXCEPT ![f] = ClassName(f)]
          /\ registerCount' = [registerCount EXCEPT ![f] = @ + 1]
          /\ decl' = [decl EXCEPT ![f] = NoDecl]
          /\ once' = [once EXCEPT ![f] = "complete"]
    /\ pc' = [pc EXCEPT ![t] = "read"]
    /\ UNCHANGED <<callF, callT, calls, results>>
    /\ UNCHANGED <<allocated, notReg>>

\* unsafe { DELEGATE_CLASS }: the value the function returns
ReadClass(t) ==
    /\ pc[t] = "read"
    /\ results' = results \cup {Outcome(t, "ok", DELEGATE_CLASS[callF[t]], FALSE)}
    /\ pc' = [pc EXCEPT ![t] = "idle"]
    /\ UNCHANGED <<once, DELEGATE_CLASS, runtime, decl, callF, callT, calls,
                   registerCount>>
    /\ UNCHANGED <<allocated, notReg>>

\* what a class handle stands for in the host runtime
ClassKind(h) == IF h = NullClass THEN "null" ELSE runtime[h].kind

\* an allocate_view that takes the class pointers from the statics without
\* calling a registration function
static_class(t) == {[f |-> f, h |-> DELEGATE_CLASS[f]] : f \in Families}

\* allocate_view: the value of registration_fn(), that is, what the call of
\* the register function the thread has just made returned
registration_fn(t) ==
    {[f |-> r.f, h |-> r.h] : r \in {q \in results : /\ q.t = t
                                                      /\ q.n = calls[t]
                                                      /\ q.out = "ok"}}

\* allocate_view(registration_fn): msg_send![registration_fn(), new]
allocate_view(t) ==
    /\ pc[t] = "idle"
    /\ \E c \in registration_fn(t) :
          allocated' = allocated \cup
              {[f |-> c.f, class |-> c.h, kind |-> ClassKind(c.h)]}
    /\ UNCHANGED <<once, DELEGATE_CLASS, runtime, decl, pc, callF, callT, calls,
                   results, registerCount>>
    /\ UNCHANGED notReg

NextRegistry ==
    \/ \E t \in Threads, f \in Families, T \in CallbackTypes : Call(t, f, T)
    \/ \E t \in Threads : CallOnce(t)
    \/ \E t \in Threads : DeclNew(t)
    \/ \E t \in Threads : AddIvar(t)
    \/ \E t \in Threads : AddMethod(t)
    \/ \E t \in Threads : Register(t)
    \/ \E t \in Threads : ReadClass(t)
    \/ \E t \in Threads : allocate_view(t)

-----------------------------------------------------------------------------
(***************************************************************************)
(* Delegate Pointer Bridge: the trampolines the host calls                 *)
(***************************************************************************)
Instances == {"wc", "vc"}     \* a window controller and a view controller
FamilyOf(i) == IF i = "wc" THEN "window" ELSE "view"

\* the heap address of the callback owner attached to an instance
AddrOf(i) == IF i = "wc" THEN "rc_window" ELSE "box_view"
Addresses == {AddrOf(i) : i \in Instances}

\* the callback-owner method a selector's trampoline calls
MethodOf(sel) ==
    CASE sel = "windowWillClose:"  -> "will_close"
      [] sel = "viewWillAppear"    -> "will_appear"
      [] sel = "viewDidAppear"     -> "did_appear"
      [] sel = "viewWillDisappear" -> "will_disappear"
      [] sel = "viewDidDisappear"  -> "did_disappear"

AllSelectors == UNION {SelectorSet(f) : f \in Families}

NoFrame == [kind |-> "none"]

\* the messages the host sends when a view controller is presented and
\* then dismissed
PresentDismiss == <<"viewWillAppear", "viewDidAppear",
                    "viewWillDisappear", "viewDidDisappear">>
OffScript == <<"offscript">>
OnScript == sent # OffScript

\* the record of the view controller's messages after one more message
Sent(i, sel) ==
    IF i # "vc" THEN sent
    ELSE IF OnScript /\ Len(sent) < Len(PresentDismiss)
            /\ sel = PresentDismiss[Len(sent) + 1]
         THEN Append(sent, sel)
         ELSE OffScript

\* load(this, ptr_name): reads the ivar and hands back a reference to the
\* callback owner at that address, without taking ownership of it
load(i) == ivar[i]

\* a will_close that lets the reconstructed Rc fall out of scope
WillCloseDropsRc == <<"load", "callback">>

\* will_close::<T>: load, borrow and call, then Rc::into_raw(window)
WillCloseSteps == <<"load", "callback", "into_raw">>

\* a trampoline that calls the callback before it forwards to super
ViewCallbackBeforeSuper == <<"load", "callback", "super">>

\* will_appear / did_appear / will_disappear / did_disappear::<T>:
\* msg_send![super(..)], load, then the callback
ViewSteps == <<"super", "load", "callback">>

StepsOf(sel) == IF sel = "windowWillClose:" THEN WillCloseSteps ELSE ViewSteps

\* the number of Rc handles to the window callback that exist besides the
\* one leaked into the ivar
OtherOwners == 0..1

InitBridge ==
    /\ ivar = [i \in Instances |-> AddrOf(i)]
    /\ \E k \in OtherOwners :
          strong = [a \in Addresses |-> IF a = "rc_window" THEN 1 + k ELSE 1]
    /\ destroyed = [a \in Addresses |-> 0]
    /\ frame = NoFrame
    /\ invoked = [s \in AllSelectors |-> 0]
    /\ sent = <<>>
    /\ seen = <<>>

ParkedBridge ==
    /\ ivar = [i \in Instances |-> AddrOf(i)]
    /\ strong = [a \in Addresses |-> 1]
    /\ destroyed = [a \in Addresses |-> 0]
    /\ frame = NoFrame
    /\ invoked = [s \in AllSelectors |-> 0]
    /\ sent = <<>>
    /\ seen = <<>>

Active == frame.kind = "active"
NextStep == IF Active /\ frame.at <= Len(StepsOf(frame.sel))
            THEN StepsOf(frame.sel)[frame.at] ELSE "return"

\* the host sends a lifecycle message to an instance: its trampoline starts
HostSend(i, sel) ==
    /\ ~Active
    /\ sel \in SelectorSet(FamilyOf(i))
    /\ invoked[sel] < MaxInvocations
    /\ invoked' = [invoked EXCEPT ![sel] = @ + 1]
    /\ frame' = [kind |-> "active", inst |-> i, sel |-> sel, at |-> 1,
                 ref |-> "unset", holdsRc |-> FALSE, trace |-> <<>>,
                 before |-> [slot |-> ivar[i], strong |-> strong[AddrOf(i)]]]
    /\ sent' = Sent(i, sel)
    /\ seen' = IF Sent(i, sel) = OffScript THEN <<>> ELSE seen
    /\ UNCHANGED <<ivar, strong, destroyed>>
    /\ UNCHANGED notBr

\* msg_send![super(this, class!(NSViewController)), <selector>]
StepSuper ==
    /\ NextStep = "super"
    /\ frame' = [frame EXCEPT !.at = @ + 1,
                              !.trace = Append(@, <<"super", frame.sel>>)]
    /\ UNCHANGED <<ivar, strong, destroyed, invoked, sent, seen>>
    /\ UNCHANGED notBr

\* let x = load::<T>(this, PTR). In will_close the value is an Rc (it is
\* handed to Rc::into_raw below), rebuilt from the raw pointer without
\* touching the strong count; in the view controller it is a plain reference.
StepLoad ==
    /\ NextStep = "load"
    /\ frame' = [frame EXCEPT !.at = @ + 1,
                              !.ref = load(frame.inst),
                              !.holdsRc = (frame.sel = "windowWillClose:")]
    /\ UNCHANGED <<ivar, strong, destroyed, invoked, sent, seen>>
    /\ UNCHANGED notBr

\* the callback-owner method runs on the loaded reference
StepCallback ==
    /\ NextStep = "callback"
    /\ frame' = [frame EXCEPT !.at = @ + 1,
                              !.trace = Append(@, <<MethodOf(frame.sel), frame.ref>>)]
    /\ seen' = IF frame.inst = "vc" /\ OnScript
               THEN Append(seen, MethodOf(frame.sel)) ELSE seen
    /\ UNCHANGED <<ivar, strong, destroyed, invoked, sent>>
    /\ UNCHANGED notBr

\* Rc::into_raw(window): gives the Rc up without decrementing the count
StepIntoRaw ==
    /\ NextStep = "into_raw"
    /\ frame' = [frame EXCEPT !.at = @ + 1, !.holdsRc = FALSE]
    /\ UNCHANGED <<ivar, strong, destroyed, invoked, sent, seen>>
    /\ UNCHANGED notBr

\* the trampoline returns: an Rc still held by a local is dropped, which
\* decrements the strong count and destroys the owner when it reaches zero
Return ==
    /\ NextStep = "return"
    /\ Active
    /\ LET a == frame.ref
       IN IF frame.holdsRc /\ a \in Addresses /\ strong[a] > 0
          THEN /\ strong' = [strong EXCEPT ![a] = @ - 1]
               /\ destroyed' = [destroyed EXCEPT ![a] =
                                    IF strong[a] = 1 THEN @ + 1 ELSE @]
          ELSE UNCHANGED <<strong, destroyed>>
    /\ frame' = [frame EXCEPT !.kind = "returned"]
    /\ UNCHANGED <<ivar, invoked, sent, seen>>
    /\ UNCHANGED notBr

NextBridge ==
    \/ \E i \in Instances, sel \in AllSelectors : HostSend(i, sel)
    \/ StepSuper
    \/ StepLoad
    \/ StepCallback
    \/ StepIntoRaw
    \/ Return

-----------------------------------------------------------------------------
(***************************************************************************)
(* Widget Handles: TextField and ListView                                  *)
(***************************************************************************)
Widgets == {"textfield", "listview"}

\* handle <<w, 0>> is the one with(..) returns; <<w, k>>, k > 0, are clones
Handles == Widgets \X (0..MaxClones)
Owner(w) == <<w, 0>>

\* `nil`
Nil == "nil"
\* the value of an ivar nothing was stored in
NullPtr == "0"
\* `delegate: None`
NoDelegate == "None"

\* the host object behind a handle's `objc` field
Objc(w) == IF w = "textfield" THEN "tf" ELSE "table"

\* Layout::get_backing_node: the text field itself; for the list view the
\* companion scroll view
get_backing_node(w) == IF w = "textfield" THEN "tf" ELSE "scroll"

Views == {"tf", "table", "scroll"}

\* Box::new(delegate)
BoxOf(w) == IF w = "textfield" THEN "box_tf" ELSE "box_lv"
\* the Rc<RefCell<CellFactoryMap>> made by CellFactory::new() in ListView::with
VendorMap == "map_lv"
HeapAddrs == {BoxOf(w) : w \in Widgets} \cup {VendorMap}

\* the ivars: TEXTFIELD_DELEGATE_PTR, LISTVIEW_DELEGATE_PTR, LISTVIEW_CELL_VENDOR_PTR
DelegateSlot(w) ==
    IF w = "textfield" THEN "rstTextFieldDelegatePtr" ELSE "rstListViewDelegatePtr"
VendorSlot == "rstListViewCellVendorPtr"
Slots == {DelegateSlot(w) : w \in Widgets} \cup {VendorSlot}
SlotObject(s) == IF s = "rstTextFieldDelegatePtr" THEN "tf" ELSE "table"

NoDispatch == [kind |-> "none"]

\* a ListView::with that makes the table its own delegate before the ivars
\* are written
WithWiresBeforeStore ==
    <<"allocate", "setDelegate", "setDataSource", "set_ivar_delegate",
      "set_ivar_vendor", "scrollview", "did_load", "assign">>

\* the statements of ListView::with, in source order
ListViewWithSteps ==
    <<"allocate", "set_ivar_delegate", "set_ivar_vendor", "setDelegate",
      "setDataSource", "scrollview", "did_load", "assign">>

WithLen(w) == IF w = "textfield" THEN 1 ELSE Len(ListViewWithSteps)
WithDone(w) == withAt[w] > WithLen(w)
WithRunning(w) == withAt[w] > 1 /\ ~WithDone(w)
LvStep == IF withAt["listview"] <= Len(ListViewWithSteps)
          THEN ListViewWithSteps[withAt["listview"]] ELSE "done"
LvPast(step) ==
    \E k \in 1..Len(ListViewWithSteps) :
        ListViewWithSteps[k] = step /\ withAt["listview"] > k

\* before TextField::new() is called
NoPlain == [state |-> "none", delegate |-> NoDelegate, superview |-> Nil]

InitWidget ==
    /\ hstate = [h \in Handles |-> "none"]
    /\ hdelegate = [h \in Handles |-> NoDelegate]
    /\ withAt = [w \in Widgets |-> 1]
    /\ slot = [s \in Slots |-> NullPtr]
    /\ heap = [a \in HeapAddrs |-> "unallocated"]
    /\ dropCount = [a \in HeapAddrs |-> 0]
    /\ superview = [v \in Views |-> Nil]
    /\ tableWiring = [delegate |-> FALSE, dataSource |-> FALSE]
    /\ toolkitRef = [v \in {"tf", "table"} |-> FALSE]
    /\ didLoad = [w \in Widgets |-> 0]
    /\ lastDispatch = NoDispatch
    /\ plain = NoPlain

\* a host object lives while something holds a reference to it: a handle
\* (ShareId), the with() that is building it, its superview, the toolkit
HeldByHandle(w) == \E h \in Handles : h[1] = w /\ hstate[h] = "live"
AliveTf == HeldByHandle("textfield") \/ toolkitRef["tf"] \/ superview["tf"] # Nil
AliveScroll ==
    \/ HeldByHandle("listview")
    \/ (LvPast("scrollview") /\ ~WithDone("listview"))
    \/ superview["scroll"] # Nil
AliveTable ==
    \/ HeldByHandle("listview")
    \/ WithRunning("listview")
    \/ toolkitRef["table"]
    \/ (superview["table"] = "scroll" /\ AliveScroll)
Alive(v) == CASE v = "tf" -> AliveTf
              [] v = "table" -> AliveTable
              [] v = "scroll" -> AliveScroll

\* TextField::with(delegate): box, allocate_view, set_ivar, build the handle,
\* label.delegate = Some(delegate). The did_load call is commented out.
TextFieldWith ==
    /\ withAt["textfield"] = 1
    /\ heap' = [heap EXCEPT !["box_tf"] = "live"]
    /\ slot' = [slot EXCEPT !["rstTextFieldDelegatePtr"] = "box_tf"]
    /\ hstate' = [hstate EXCEPT ![Owner("textfield")] = "live"]
    /\ hdelegate' = [hdelegate EXCEPT ![Owner("textfield")] = "box_tf"]
    /\ withAt' = [withAt EXCEPT !["textfield"] = 2]
    /\ UNCHANGED <<dropCount, superview, tableWiring, toolkitRef, didLoad,
                   lastDispatch>>
    /\ UNCHANGED <<plain, notW>>

\* ListView::with: Box::new(delegate); CellFactory::new(); allocate_view(..)
LvAllocate ==
    /\ LvStep = "allocate"
    /\ heap' = [heap EXCEPT !["box_lv"] = "live", ![VendorMap] = "live"]
    /\ withAt' = [withAt EXCEPT !["listview"] = @ + 1]
    /\ UNCHANGED <<hstate, hdelegate, slot, dropCount, superview, tableWiring,
                   toolkitRef, didLoad, lastDispatch>>
    /\ UNCHANGED <<plain, notW>>

\* (&mut *view).set_ivar(LISTVIEW_DELEGATE_PTR, delegate_ptr as usize)
LvSetIvarDelegate ==
    /\ LvStep = "set_ivar_delegate"
    /\ slot' = [slot EXCEPT !["rstListViewDelegatePtr"] = "box_lv"]
    /\ withAt' = [withAt EXCEPT !["listview"] = @ + 1]
    /\ UNCHANGED <<hstate, hdelegate, heap, dropCount, superview, tableWiring,
                   toolkitRef, didLoad, lastDispatch>>
    /\ UNCHANGED <<plain, notW>>

\* (&mut *view).set_ivar(LISTVIEW_CELL_VENDOR_PTR, cell_vendor_ptr as usize)
LvSetIvarVendor ==
    /\ LvStep = "set_ivar_vendor"
    /\ slot' = [slot EXCEPT ![VendorSlot] = VendorMap]
    /\ withAt' = [withAt EXCEPT !["listview"] = @ + 1]
    /\ UNCHANGED <<hstate, hdelegate, heap, dropCount, superview, tableWiring,
                   toolkitRef, didLoad, lastDispatch>>
    /\ UNCHANGED <<plain, notW>>

\* msg_send![view, setDelegate:view]
LvSetDelegate ==
    /\ LvStep = "setDelegate"
    /\ tableWiring' = [tableWiring EXCEPT !.delegate = TRUE]
    /\ withAt' = [withAt EXCEPT !["listview"] = @ + 1]
    /\ UNCHANGED <<hstate, hdelegate, slot, heap, dropCount, superview,
                   toolkitRef, didLoad, lastDispatch>>
    /\ UNCHANGED <<plain, notW>>

\* msg_send![view, setDataSource:view]
LvSetDataSource ==
    /\ LvStep = "setDataSource"
    /\ tableWiring' = [tableWiring EXCEPT !.dataSource = TRUE]
    /\ withAt' = [withAt EXCEPT !["listview"] = @ + 1]
    /\ UNCHANGED <<hstate, hdelegate, slot, heap, dropCount, superview,
                   toolkitRef, didLoad, lastDispatch>>
    /\ UNCHANGED <<plain, notW>>

\* ScrollView::new(); setDocumentView:view (the table becomes a subview of
\* the scroll view's content); the ListView value is built with delegate: None
LvScrollView ==
    /\ LvStep = "scrollview"
    /\ superview' = [superview EXCEPT !["table"] = "scroll"]
    /\ withAt' = [withAt EXCEPT !["listview"] = @ + 1]
    /\ UNCHANGED <<hstate, hdelegate, slot, heap, dropCount, tableWiring,
                   toolkitRef, didLoad, lastDispatch>>
    /\ UNCHANGED <<plain, notW>>

\* a clone that takes the delegate along
clone_shares_delegate(d) == d

\* clone_as_handle: the `delegate` field of the clone
clone_as_handle(d) == NoDelegate

FreeClone(w) == {k \in 1..MaxClones : hstate[<<w, k>>] = "none"
                                      /\ \A j \in 1..(k-1) : hstate[<<w, j>>] # "none"}

\* (&mut delegate).did_load(view.clone_as_handle())
LvDidLoad ==
    /\ LvStep = "did_load"
    /\ \E k \in FreeClone("listview") :
          /\ hstate' = [hstate EXCEPT ![<<"listview", k>>] = "live"]
          /\ hdelegate' = [hdelegate EXCEPT ![<<"listview", k>>] =
                              clone_as_handle(hdelegate[Owner("listview")])]
    /\ didLoad' = [didLoad EXCEPT !["listview"] = @ + 1]
    /\ withAt' = [withAt EXCEPT !["listview"] = @ + 1]
    /\ UNCHANGED <<slot, heap, dropCount, superview, tableWiring, toolkitRef,
                   lastDispatch>>
    /\ UNCHANGED <<plain, notW>>

\* view.delegate = Some(delegate); view   (moving the Box keeps its address)
LvAssign ==
    /\ LvStep = "assign"
    /\ hdelegate' = [hdelegate EXCEPT ![Owner("listview")] = "box_lv"]
    /\ hstate' = [hstate EXCEPT ![Owner("listview")] = "live"]
    /\ withAt' = [withAt EXCEPT !["listview"] = @ + 1]
    /\ UNCHANGED <<slot, heap, dropCount, superview, tableWiring, toolkitRef,
                   didLoad, lastDispatch>>
    /\ UNCHANGED <<plain, notW>>

\* h.clone_as_handle(), from any live handle of the widget
CloneAsHandle(h) ==
    /\ hstate[h] = "live"
    /\ \E k \in FreeClone(h[1]) :
          /\ hstate' = [hstate EXCEPT ![<<h[1], k>>] = "live"]
          /\ hdelegate' = [hdelegate EXCEPT ![<<h[1], k>>] =
                              clone_as_handle(hdelegate[h])]
    /\ UNCHANGED <<withAt, slot, heap, dropCount, superview, tableWiring,
                   toolkitRef, didLoad, lastDispatch>>
    /\ UNCHANGED <<plain, notW>>

\* parent.add_subview(&handle): addSubview: of the handle's backing node
AddSubview(h) ==
    /\ hstate[h] = "live"
    /\ superview' = [superview EXCEPT ![get_backing_node(h[1])] = "parent"]
    /\ UNCHANGED <<hstate, hdelegate, withAt, slot, heap, dropCount,
                   tableWiring, toolkitRef, didLoad, lastDispatch>>
    /\ UNCHANGED <<plain, notW>>

\* a drop that detaches the view whatever the handle holds
detaches_always(d) == TRUE

\* `if self.delegate.is_some()`
detaches(d) == d # NoDelegate

\* Drop for TextField / ListView, then the drop of the fields: with a
\* delegate, removeFromSuperview of `objc` when it has a superview; then the
\* cell factory, the object references and the boxed delegate are dropped
DropHandle(h) ==
    /\ hstate[h] = "live"
    /\ LET w == h[1]
           d == hdelegate[h]
       IN /\ superview' =
                IF detaches(d) /\ superview[Objc(w)] # Nil
                THEN [superview EXCEPT ![Objc(w)] = Nil]
                ELSE superview
          /\ heap' = [a \in HeapAddrs |->
                        IF a = d \/ (a = VendorMap /\ h = Owner("listview"))
                        THEN "freed" ELSE heap[a]]
          /\ dropCount' = [a \in HeapAddrs |->
                        IF a = d \/ (a = VendorMap /\ h = Owner("listview"))
                        THEN dropCount[a] + 1 ELSE dropCount[a]]
    /\ hstate' = [hstate EXCEPT ![h] = "dropped"]
    /\ UNCHANGED <<hdelegate, withAt, slot, tableWiring, toolkitRef, didLoad,
                   lastDispatch>>
    /\ UNCHANGED <<plain, notW>>

\* the toolkit takes or gives up a reference of its own to a live host view
ToolkitRetain(v) ==
    /\ Alive(v)
    /\ ~toolkitRef[v]
    /\ toolkitRef' = [toolkitRef EXCEPT ![v] = TRUE]
    /\ UNCHANGED <<hstate, hdelegate, withAt, slot, heap, dropCount, superview,
                   tableWiring, didLoad, lastDispatch>>
    /\ UNCHANGED <<plain, notW>>

ToolkitRelease(v) ==
    /\ toolkitRef[v]
    /\ toolkitRef' = [toolkitRef EXCEPT ![v] = FALSE]
    /\ UNCHANGED <<hstate, hdelegate, withAt, slot, heap, dropCount, superview,
                   tableWiring, didLoad, lastDispatch>>
    /\ UNCHANGED <<plain, notW>>

Phase(w) == IF hstate[Owner(w)] = "dropped" THEN "after_drop"
            ELSE IF WithDone(w) THEN "owned" ELSE "with"
WidgetOf(s) == IF s = "rstTextFieldDelegatePtr" THEN "textfield" ELSE "listview"

\* the host calls an overridden method of a live instance; the trampoline
\* loads the slot and dispatches into whatever it points at. The table calls
\* back only once it is its own delegate or data source.
HostCallback(s) ==
    /\ Alive(SlotObject(s))
    /\ SlotObject(s) = "table" => tableWiring.delegate \/ tableWiring.dataSource
    /\ SlotObject(s) = "tf" => WithDone("textfield")
    /\ lastDispatch' =
          [kind |-> "dispatch", slot |-> s, value |-> slot[s],
           target |-> IF slot[s] = NullPtr THEN "null" ELSE heap[slot[s]],
           phase |-> Phase(WidgetOf(s))]
    /\ lastDispatch' # lastDispatch
    /\ UNCHANGED <<hstate, hdelegate, withAt, slot, heap, dropCount, superview,
                   tableWiring, toolkitRef, didLoad>>
    /\ UNCHANGED <<plain, notW>>

\* TextField::new(): allocate_view of the class without a delegate slot and
\* a handle with delegate: None; nothing is boxed and no slot is written
TextFieldNew ==
    /\ plain.state = "none"
    /\ plain' = [plain EXCEPT !.state = "live"]
    /\ UNCHANGED <<hstate, hdelegate, withAt, slot, heap, dropCount, superview,
                   tableWiring, toolkitRef, didLoad, lastDispatch>>
    /\ UNCHANGED notW

\* parent.add_subview(&field) for the handle new() returned
AddSubviewPlain ==
    /\ plain.state = "live"
    /\ plain' = [plain EXCEPT !.superview = "parent"]
    /\ UNCHANGED <<hstate, hdelegate, withAt, slot, heap, dropCount, superview,
                   tableWiring, toolkitRef, didLoad, lastDispatch>>
    /\ UNCHANGED notW

\* Drop for TextField on the handle new() returned
DropPlain ==
    /\ plain.state = "live"
    /\ plain' = [plain EXCEPT !.state = "dropped",
                              !.superview = IF detaches(plain.delegate) /\ @ # Nil
                                            THEN Nil ELSE @]
    /\ UNCHANGED <<hstate, hdelegate, withAt, slot, heap, dropCount, superview,
                   tableWiring, toolkitRef, didLoad, lastDispatch>>
    /\ UNCHANGED notW

NextWidget ==
    \/ TextFieldWith
    \/ LvAllocate
    \/ LvSetIvarDelegate
    \/ LvSetIvarVendor
    \/ LvSetDelegate
    \/ LvSetDataSource
    \/ LvScrollView
    \/ LvDidLoad
    \/ LvAssign
    \/ \E h \in Handles : CloneAsHandle(h)
    \/ \E h \in Handles : AddSubview(h)
    \/ \E h \in Handles : DropHandle(h)
    \/ \E v \in {"tf", "table"} : ToolkitRetain(v)
    \/ \E v \in {"tf", "table"} : ToolkitRelease(v)
    \/ \E s \in Slots : HostCallback(s)

\* the text field alone: handles made by new() and by with(..), their
\* clones, embedding and drop
NextHandles ==
    \/ TextFieldNew
    \/ TextFieldWith
    \/ AddSubviewPlain
    \/ DropPlain
    \/ \E h \in Handles : CloneAsHandle(h)
    \/ \E h \in Handles : AddSubview(h)
    \/ \E h \in Handles : DropHandle(h)
    \/ \E v \in {"tf"} : ToolkitRetain(v)
    \/ \E v \in {"tf"} : ToolkitRelease(v)

-----------------------------------------------------------------------------
(***************************************************************************)
(* Reusable Row Vendor: register and dequeue on ListView handles           *)
(***************************************************************************)
\* "owner" is the ListView that with(..) / new() returned, "clone" a handle
\* clone_as_handle made of it (the one handed to did_load or to the closure
\* of perform_batch_updates)
ListHandles == {"owner", "clone"}
\* the map made for handle k is named k
MapIds == ListHandles
RowIds == 1..MaxRows
Identifiers == {"item", "header"}
Factories == {"f1", "f2"}
RowTypes == {"RowA", "RowB"}

\* the type of the callback owner a factory produces
ProducedType(f) == IF f = "f1" THEN "RowA" ELSE "RowB"

NoFactory == "none"
\* a handle that does not exist has no cell_factory
NoMap == "nomap"
\* the null pointer makeViewWithIdentifier returns for an empty pool
NilCell == 0
NoOp == [op |-> "none"]

\* HashMap::new()
EmptyMap == [i \in Identifiers |-> NoFactory]

\* the map whose address ListView::with stores in the cell-vendor slot
OwnerMap == mapOf["owner"]

NoRow == [state |-> "unallocated", ident |-> Nil, callback |-> NullPtr]

\* the Box<R> a factory call produced for row r
BoxOfRow(r) == <<"box_row", r>>

InitVendor ==
    /\ cellMaps = [m \in MapIds |-> EmptyMap]
    /\ mapOf = [k \in ListHandles |-> IF k = "owner" THEN "owner" ELSE NoMap]
    /\ registeredVia = [k \in ListHandles |-> {}]
    /\ rows = [r \in RowIds |-> NoRow]
    /\ last = NoOp

\* a clone whose cell_factory is a second Rc to the source's map
shares_cell_factory(src, k) == mapOf[src]

\* clone_as_handle: cell_factory: CellFactory::new()
new_cell_factory(src, k) == k

\* an insert that keeps the entry already present (entry().or_insert)
insert_if_absent(m, identifier, vendor) ==
    IF m[identifier] = NoFactory THEN [m EXCEPT ![identifier] = vendor] ELSE m

\* CellFactory::insert: HashMap::insert puts or replaces the entry
insert(m, identifier, vendor) == [m EXCEPT ![identifier] = vendor]

\* a get that hands out the boxed value without the downcast
get_unchecked(m, identifier, R) ==
    LET vendor == m[identifier]
    IN IF vendor = NoFactory
       THEN [outcome |-> "UnknownRowIdentifier", invoked |-> <<>>]
       ELSE [outcome |-> "ok", invoked |-> <<vendor>>]

\* a get that falls back to the first registered factory
get_or_default(m, identifier, R) ==
    LET vendor == IF m[identifier] = NoFactory THEN "f1" ELSE m[identifier]
    IN IF ProducedType(vendor) # R
       THEN [outcome |-> "RowTypeMismatch", invoked |-> <<vendor>>]
       ELSE [outcome |-> "ok", invoked |-> <<vendor>>]

\* CellFactory::get::<R>: look the identifier up (panic when absent), call
\* the vendor, downcast the Box<Any> to R (panic when it is another type)
get(m, identifier, R) ==
    LET vendor == m[identifier]
    IN IF vendor = NoFactory
       THEN [outcome |-> "UnknownRowIdentifier", invoked |-> <<>>]
       ELSE IF ProducedType(vendor) # R
            THEN [outcome |-> "RowTypeMismatch", invoked |-> <<vendor>>]
            ELSE [outcome |-> "ok", invoked |-> <<vendor>>]

\* makeViewWithIdentifier:owner: - the views of the host reuse pool that
\* carry the identifier; the host hands out one of them, or nil
makeViewWithIdentifier(identifier) ==
    LET pooled == {r \in RowIds : rows[r].state = "pooled"
                                  /\ rows[r].ident = identifier}
    IN IF pooled = {} THEN {NilCell} ELSE pooled

\* a dequeue that goes to the factory whatever the host returned
never_cached(cell) == FALSE

\* `if cell != nil`
is_cached(cell) == cell # NilCell

\* ListView::register(identifier, vendor) on handle k
register(k, identifier, vendor) ==
    /\ mapOf[k] # NoMap
    /\ LET i == mapOf[k]
       IN /\ cellMaps' = [cellMaps EXCEPT ![i] = insert(@, identifier, vendor)]
          /\ last' = [op |-> "register", k |-> k, id |-> identifier,
                      f |-> vendor, old |-> cellMaps[i][identifier]]
    /\ registeredVia' = [registeredVia EXCEPT ![k] = @ \cup {identifier}]
    /\ UNCHANGED <<mapOf, rows>>
    /\ UNCHANGED notV

\* ListView::dequeue::<R>(identifier) on handle k
dequeue(k, identifier, R) ==
    /\ mapOf[k] # NoMap
    /\ \E cell \in makeViewWithIdentifier(identifier) :
          LET call == [op |-> "dequeue", k |-> k, id |-> identifier, R |-> R,
                       cell |-> cell,
                       own |-> identifier \in registeredVia[k]]
          IN IF is_cached(cell)
             THEN \* ListViewRow::from_cached(cell)
                  /\ rows' = IF cell \in RowIds
                             THEN [rows EXCEPT ![cell].state = "inuse"]
                             ELSE rows
                  /\ last' = call @@ [outcome |-> "cached", row |-> cell,
                                      invoked |-> <<>>, allocated |-> FALSE,
                                      stored |-> FALSE]
             ELSE LET g == get(cellMaps[mapOf[k]], identifier, R)
                  IN IF g.outcome # "ok"
                     THEN \* the panic leaves dequeue before with_boxed
                          /\ rows' = rows
                          /\ last' = call @@ [outcome |-> g.outcome,
                                              row |-> NilCell,
                                              invoked |-> g.invoked,
                                              allocated |-> FALSE,
                                              stored |-> FALSE]
                     ELSE \* ListViewRow::with_boxed(delegate), then
                          \* view.set_identifier(identifier)
                          \E r \in RowIds :
                             /\ rows[r].state = "unallocated"
                             /\ \A q \in RowIds : q < r
                                   => rows[q].state # "unallocated"
                             /\ rows' = [rows EXCEPT ![r] =
                                   [state |-> "inuse", ident |-> identifier,
                                    callback |-> BoxOfRow(r)]]
                             /\ last' = call @@ [outcome |-> "created",
                                                 row |-> r,
                                                 invoked |-> g.invoked,
                                                 allocated |-> TRUE,
                                                 stored |-> TRUE]
    /\ UNCHANGED <<cellMaps, mapOf, registeredVia>>
    /\ UNCHANGED notV

\* a row scrolls out of sight: the host puts its view into the reuse pool
HostRecycle(r) ==
    /\ rows[r].state = "inuse"
    /\ rows' = [rows EXCEPT ![r].state = "pooled"]
    /\ UNCHANGED <<cellMaps, mapOf, registeredVia, last>>
    /\ UNCHANGED notV

\* ListView::clone_as_handle on handle src: the clone k gets a cell_factory
CloneListHandle(src, k) ==
    /\ mapOf[src] # NoMap
    /\ k # "owner"
    /\ mapOf[k] = NoMap
    /\ mapOf' = [mapOf EXCEPT ![k] = new_cell_factory(src, k)]
    /\ registeredVia' = [registeredVia EXCEPT ![k] = {}]
    /\ UNCHANGED <<cellMaps, rows, last>>
    /\ UNCHANGED notV

\* a clone goes out of scope: its cell_factory Rc is dropped, and the map
\* with it when no other handle refers to that map
DropListHandle(k) ==
    /\ k # "owner"
    /\ mapOf[k] # NoMap
    /\ mapOf' = [mapOf EXCEPT ![k] = NoMap]
    /\ registeredVia' = [registeredVia EXCEPT ![k] = {}]
    /\ cellMaps' = IF \E j \in ListHandles \ {k} : mapOf[j] = mapOf[k]
                   THEN cellMaps
                   ELSE [cellMaps EXCEPT ![mapOf[k]] = EmptyMap]
    /\ UNCHANGED <<rows, last>>
    /\ UNCHANGED notV

NextVendor ==
    \/ \E k \in ListHandles, i \in Identifiers, f \in Factories : register(k, i, f)
    \/ \E k \in ListHandles, i \in Identifiers, R \in RowTypes : dequeue(k, i, R)
    \/ \E r \in RowIds : HostRecycle(r)
    \/ \E src \in ListHandles, k \in ListHandles : CloneListHandle(src, k)
    \/ \E k \in ListHandles : DropListHandle(k)

-----------------------------------------------------------------------------
(***************************************************************************)
(* Batch updates: perform_batch_updates, insert_rows, remove_rows          *)
(***************************************************************************)
RowEdits == {"insert_rows", "remove_rows"}

InitBatch ==
    /\ batchStack = <<>>
    /\ hostUpdates = 0
    /\ batches = 0
    /\ buffered = <<>>
    /\ applied = <<>>

\* perform_batch_updates(update), up to the call of the closure: beginUpdates
\* is sent, the handle is cloned and update(handle) starts to run. The call
\* is made on the owner or, inside a closure, on the handle it was given.
BeginUpdates ==
    /\ batches < MaxBatches
    /\ batches' = batches + 1
    /\ hostUpdates' = hostUpdates + 1
    /\ batchStack' = Append(batchStack, [opened |-> hostUpdates + 1])
    /\ UNCHANGED <<buffered, applied>>
    /\ UNCHANGED notB

\* the closure returned: endUpdates is sent and perform_batch_updates
\* returns. The host applies what it held back when the outermost group ends.
EndUpdates ==
    /\ batchStack # <<>>
    /\ batchStack' = SubSeq(batchStack, 1, Len(batchStack) - 1)
    /\ hostUpdates' = hostUpdates - 1
    /\ IF hostUpdates = 1
       THEN /\ applied' = applied \o buffered
            /\ buffered' = <<>>
       ELSE UNCHANGED <<buffered, applied>>
    /\ UNCHANGED batches
    /\ UNCHANGED notB

\* the closure panics and the panic is caught n frames up (or by the caller
\* of the outermost perform_batch_updates): the unwinding leaves each frame
\* at the call update(handle), and no statement after it runs
ClosurePanics(n) ==
    /\ n \in 1..Len(batchStack)
    /\ batchStack' = SubSeq(batchStack, 1, Len(batchStack) - n)
    /\ UNCHANGED <<hostUpdates, batches, buffered, applied>>
    /\ UNCHANGED notB

\* insert_rows / remove_rows: the message goes to the host at once; the host
\* holds the edit back while an update group is open
RowEdit(e) ==
    /\ Len(buffered) + Len(applied) < MaxEdits
    /\ IF hostUpdates > 0
       THEN /\ buffered' = Append(buffered, e)
            /\ UNCHANGED applied
       ELSE /\ applied' = Append(applied, e)
            /\ UNCHANGED buffered
    /\ UNCHANGED <<batchStack, hostUpdates, batches>>
    /\ UNCHANGED notB

NextBatch ==
    \/ BeginUpdates
    \/ EndUpdates
    \/ \E n \in 1..MaxBatches : ClosurePanics(n)
    \/ \E e \in RowEdits : RowEdit(e)

-----------------------------------------------------------------------------
(***************************************************************************)
(* File manager: get_directory and move_item                               *)
(***************************************************************************)
Paths == {"/a", "/b", "/c"}
SearchPathDirectory == {"Documents", "ApplicationSupport"}
SearchPathDomainMask == {"User", "Local"}

NoCall == [op |-> "none"]

InitFile ==
    /\ files \in SUBSET Paths
    /\ resolvable \in SUBSET (SearchPathDirectory \X SearchPathDomainMask)
    /\ fsLast = NoCall

ParkedFile ==
    /\ files = {}
    /\ resolvable = {}
    /\ fsLast = NoCall

\* URLForDirectory:inDomain:appropriateForURL:create:error: - the URL of the
\* directory, or nil when the host cannot resolve it
URLForDirectory(directory, in_domain) ==
    IF <<directory, in_domain>> \in resolvable
    THEN <<"file://", directory, in_domain>>
    ELSE Nil

\* moveItemAtURL:toURL:error: - YES when the host moved the item
moveItemAtURL(from, to) == from \in files /\ to \notin files

\* NSString::wrap(msg_send![dir, absoluteString]) followed by to_str() and
\* Url::parse. For a URL the string parses. For nil the message returns nil,
\* and the string wrapper is built on a null pointer and read: the call
\* either crashes there or goes on with an empty string, which does not parse.
ParseAbsoluteString(dir) ==
    IF dir # Nil THEN {[outcome |-> "Ok", url |-> dir]}
    ELSE {[outcome |-> "crash", url |-> Nil], [outcome |-> "Err", url |-> Nil]}

\* FileManager::get_directory(directory, in_domain)
get_directory(directory, in_domain) ==
    /\ LET dir == URLForDirectory(directory, in_domain)
       IN \E res \in ParseAbsoluteString(dir) :
             fsLast' = [op |-> "get_directory", args |-> <<directory, in_domain>>,
                        hostFailed |-> (dir = Nil),
                        outcome |-> res.outcome, url |-> res.url]
    /\ UNCHANGED <<files, resolvable>>
    /\ UNCHANGED notF

\* FileManager::move_item(from, to)
move_item(from, to) ==
    /\ LET result == moveItemAtURL(from, to)
       IN /\ files' = IF result THEN (files \ {from}) \cup {to} ELSE files
          /\ fsLast' = [op |-> "move_item", args |-> <<from, to>>,
                        hostFailed |-> ~result,
                        outcome |-> IF ~result THEN "Err" ELSE "Ok",
                        url |-> Nil]
    /\ UNCHANGED resolvable
    /\ UNCHANGED notF

NextFile ==
    \/ \E d \in SearchPathDirectory, m \in SearchPathDomainMask : get_directory(d, m)
    \/ \E from \in Paths, to \in Paths : move_item(from, to)

-----------------------------------------------------------------------------
(***************************************************************************)
(* Properties of the registry                                              *)
(***************************************************************************)
Ok(f) == {r \in results : r.f = f /\ r.out = "ok"}
NameFree(f) == runtime[ClassName(f)].kind # "foreign"

\* C1: however many calls of a family's register function have returned,
\* for whatever callback types, they all returned the same class handle, the
\* class was registered with the host runtime exactly once, and (the class
\* name being free) every finished call did return.
C1_RegistrationIdempotent ==
    \A f \in Families :
        /\ \A r1, r2 \in Ok(f) : r1.h = r2.h
        /\ registerCount[f] <= 1
        /\ Ok(f) # {} => registerCount[f] = 1
        /\ NameFree(f) => \A r \in results : r.f = f => r.out = "ok"

\* one thread has finished two calls for the same family and type
C1_Witness ==
    \E f \in Families, T \in CallbackTypes, r1, r2 \in results :
        /\ r1.t = r2.t /\ r1.f = f /\ r2.f = f /\ r1.T = T /\ r2.T = T
        /\ r1.n = 1 /\ r2.n = 2
        /\ r1.out = "ok" /\ r2.out = "ok"
        /\ registerCount[f] = 1

\* C2 (as claimed): the class handle returned to a call made for callback
\* type T has every lifecycle selector of the family bound to the trampoline
\* monomorphized for T.
C2_HandleBoundToCallerType ==
    \A r \in results :
        r.out = "ok" =>
            /\ runtime[ClassName(r.f)].kind = "wrapper"
            /\ \A sel \in SelectorSet(r.f) :
                  Trampoline(sel, r.T) \in runtime[ClassName(r.f)].methods

\* C3 (as claimed): a call in which the host runtime rejected the subclass
\* declaration ends with the error value HostRuntimeRejected, having added
\* no ivar, installed no method and published no handle; and no call of
\* that family returns a handle.
C3_RejectionIsReturnedAsError ==
    \A r \in results :
        r.rejected =>
            /\ r.out = "err_HostRuntimeRejected"
            /\ DELEGATE_CLASS[r.f] = NullClass
            /\ runtime[ClassName(r.f)].kind = "foreign"
            /\ Ok(r.f) = {}

InBody(t) == pc[t] \in {"decl_new", "add_ivar", "add_method", "register"}

\* C4: at most one thread is ever inside the registration closure of a
\* family and the closure registers at most once; a thread that is past
\* call_once finds the registration complete and the class installed; and
\* every handle returned is the installed, non-null class.
C4_ConcurrentFirstUse ==
    /\ \A f \in Families :
          /\ Cardinality({t \in Threads : InBody(t) /\ callF[t] = f}) <= 1
          /\ registerCount[f] <= 1
    /\ \A t \in Threads :
          pc[t] = "read" =>
              /\ once[callF[t]] = "complete"
              /\ DELEGATE_CLASS[callF[t]] = ClassName(callF[t])
              /\ runtime[ClassName(callF[t])].kind = "wrapper"
    /\ \A r \in results :
          r.out = "ok" => r.h # NullClass /\ r.h = DELEGATE_CLASS[r.f]

\* both threads are inside their first call for the same family at once,
\* and both are about to return the installed class
C4_Witness ==
    \E f \in Families :
        /\ \A t \in Threads : pc[t] = "read" /\ callF[t] = f /\ calls[t] = 1
        /\ results = {}
        /\ DELEGATE_CLASS[f] # NullClass

\* C17: inside the once-guarded registration the delegate-pointer ivar is
\* added before any method override, the class is registered with the host
\* runtime before its handle is published and returned, and allocate_view
\* gets the class from the register function before it sends `new`: no
\* instance is made from a null or unregistered class handle.
C17_RegisteredBeforeUse ==
    /\ \A f \in Families :
          /\ decl[f].kind = "decl" /\ decl[f].methods # {} =>
                decl[f].ivars = <<PtrName(f)>>
          /\ DELEGATE_CLASS[f] # NullClass =>
                /\ DELEGATE_CLASS[f] = ClassName(f)
                /\ runtime[ClassName(f)].kind = "wrapper"
                /\ runtime[ClassName(f)].ivars = <<PtrName(f)>>
    /\ \A r \in results : r.out = "ok" =>
          /\ r.h # NullClass
          /\ runtime[r.h].kind = "wrapper"
    /\ \A a \in allocated :
          /\ a.class = ClassName(a.f)
          /\ a.kind = "wrapper"

\* both families have an instance made by allocate_view
C17_Witness ==
    /\ \A f \in Families : \E a \in allocated : a.f = f
    /\ \A f \in Families : registerCount[f] = 1

(***************************************************************************)
(* Properties of the trampolines                                           *)
(***************************************************************************)
\* C5: in every trampoline the reference load yields is the address held in
\* the instance's slot; when the trampoline has returned, the slot and the
\* callback owner's reference count are what they were when it was entered;
\* no callback owner is ever destroyed by dispatching callbacks.
C5_SlotRoundTrip ==
    /\ frame.kind # "none" =>
          /\ frame.ref # "unset" =>
                frame.ref = ivar[frame.inst] /\ frame.ref = AddrOf(frame.inst)
          /\ ivar[frame.inst] = frame.before.slot
          /\ frame.kind = "returned" =>
                strong[AddrOf(frame.inst)] = frame.before.strong
    /\ \A a \in Addresses : destroyed[a] = 0 /\ strong[a] >= 1

\* windowWillClose: has been sent at least twice and its trampoline has
\* returned from the second call, having run the callback
C5_Witness ==
    /\ frame.kind = "returned"
    /\ frame.sel = "windowWillClose:"
    /\ invoked["windowWillClose:"] >= 2
    /\ invoked["viewDidDisappear"] >= 1
    /\ frame.trace = <<<<"will_close", "rc_window">>>>

\* C15: each view-controller override first forwards the message to the
\* superclass and only then calls the matching callback-owner method, once
\* per host message; for the messages of a present-then-dismiss sequence
\* the callbacks run in the order will_appear, did_appear, will_disappear,
\* did_disappear, each once.
C15_SuperThenCallbackInOrder ==
    /\ frame.kind # "none" /\ frame.inst = "vc" =>
          LET whole == <<"super", MethodOf(frame.sel)>>
              done == [n \in 1..Len(frame.trace) |-> frame.trace[n][1]]
          IN /\ Len(done) <= 2
             /\ done = SubSeq(whole, 1, Len(done))
             /\ frame.kind = "returned" => done = whole
    /\ OnScript =>
          /\ Len(seen) <= Len(sent)
          /\ Len(sent) - Len(seen) <= 1
          /\ ~Active => Len(seen) = Len(sent)
          /\ seen = [n \in 1..Len(seen) |-> MethodOf(sent[n])]
    /\ sent = PresentDismiss /\ ~Active =>
          seen = <<"will_appear", "did_appear", "will_disappear", "did_disappear">>

\* a view controller was presented and dismissed
C15_Witness ==
    /\ sent = PresentDismiss
    /\ frame.kind = "returned"
    /\ frame.sel = "viewDidDisappear"
    /\ Len(seen) = 4

(***************************************************************************)
(* Properties of the widget handles                                        *)
(***************************************************************************)
Clones(w) == {h \in Handles : h[1] = w /\ h[2] > 0}

\* C6: the callback owner boxed by with(..) is never destroyed more than
\* once, is not destroyed while the owning handle has not been dropped
\* (whatever clones are made or dropped and whatever callbacks the host
\* makes), and has been destroyed exactly once when the owning handle has
\* been dropped.
C6_DropOnce ==
    \A w \in Widgets :
        /\ dropCount[BoxOf(w)] <= 1
        /\ hstate[Owner(w)] = "dropped" =>
              dropCount[BoxOf(w)] = 1 /\ heap[BoxOf(w)] = "freed"
        /\ hstate[Owner(w)] = "live" =>
              dropCount[BoxOf(w)] = 0 /\ heap[BoxOf(w)] = "live"
        /\ hstate[Owner(w)] = "none" => dropCount[BoxOf(w)] = 0

\* both widgets were made with a callback, cloned, called back by the host,
\* and all their handles, the clones first, have been dropped
C6_Witness ==
    /\ \A w \in Widgets :
          /\ hstate[Owner(w)] = "dropped"
          /\ hstate[<<w, 1>>] = "dropped"
          /\ dropCount[BoxOf(w)] = 1
    /\ lastDispatch # NoDispatch

\* C7 (as claimed): once the owning handle has been dropped, the delegate
\* slots of a host object that is still alive are 0, no host callback is
\* dispatched into the dropped callback, and no slot of a live host object
\* holds the address of a destroyed callback owner.
C7_UnbindOnDrop ==
    /\ \A w \in Widgets :
          (hstate[Owner(w)] = "dropped" /\ Alive(Objc(w))) =>
              \A s \in Slots : WidgetOf(s) = w => slot[s] = NullPtr
    /\ lastDispatch # NoDispatch => lastDispatch.target # "freed"
    /\ \A s \in Slots :
          (Alive(SlotObject(s)) /\ slot[s] # NullPtr) => heap[slot[s]] # "freed"

\* C8 (as claimed): when with(callback) has returned, for the text field as
\* for the list view, the delegate slot holds the address of the boxed
\* callback, did_load has been invoked exactly once, after the store, and
\* the handle it was given owns no callback.
C8_WithCallsDidLoadOnce ==
    \A w \in Widgets :
        /\ didLoad[w] <= 1
        /\ didLoad[w] = 1 => slot[DelegateSlot(w)] = BoxOf(w)
        /\ \A h \in Clones(w) : hdelegate[h] = NoDelegate
        /\ WithDone(w) =>
              /\ slot[DelegateSlot(w)] = BoxOf(w)
              /\ didLoad[w] = 1

Wired == tableWiring.delegate \/ tableWiring.dataSource

\* C9: in ListView::with both slots are written before the table is made
\* its own delegate or data source and before did_load runs, so from then
\* until the owning handle is dropped the slots hold the addresses of the
\* live boxed callback and the live vendor map, every host callback made in
\* that time reads such an address, and the returned handle's delegate
\* field holds the very address the slot holds.
C9_StoreBeforeCallbacks ==
    /\ (Wired \/ didLoad["listview"] > 0) /\ hstate[Owner("listview")] # "dropped" =>
          /\ slot["rstListViewDelegatePtr"] = "box_lv"
          /\ heap["box_lv"] = "live"
          /\ slot[VendorSlot] = VendorMap
          /\ heap[VendorMap] = "live"
    /\ (lastDispatch # NoDispatch /\ WidgetOf(lastDispatch.slot) = "listview"
            /\ lastDispatch.phase \in {"with", "owned"}) =>
          /\ lastDispatch.target = "live"
          /\ lastDispatch.value =
                IF lastDispatch.slot = VendorSlot THEN VendorMap ELSE "box_lv"
    /\ hstate[Owner("listview")] = "live" =>
          hdelegate[Owner("listview")] = slot["rstListViewDelegatePtr"]

\* a host callback read the delegate slot while with(..) was still running,
\* after did_load; with(..) has since returned the owning handle
C9_Witness ==
    /\ hstate[Owner("listview")] = "live"
    /\ didLoad["listview"] = 1
    /\ lastDispatch # NoDispatch
    /\ lastDispatch.slot = "rstListViewDelegatePtr"
    /\ lastDispatch.phase = "with"
    /\ lastDispatch.value = hdelegate[Owner("listview")]

\* C10 (as claimed): dropping a handle that owns a callback while the node
\* it exposes for embedding is a subview of a parent leaves that node no
\* longer a subview of the parent.
C10_DetachOnDrop ==
    [][\A w \in Widgets :
          (/\ hstate[Owner(w)] = "live"
           /\ hstate'[Owner(w)] = "dropped"
           /\ hdelegate[Owner(w)] # NoDelegate
           /\ superview[get_backing_node(w)] = "parent")
          => superview'[get_backing_node(w)] # "parent"]_vars

\* C18: a handle clone refers to the host object of the original and
\* carries no callback ownership (delegate is None); dropping a clone, or a
\* delegate-less handle made by new(), leaves the host object's parent
\* attachment, its delegate slot and the callback owner as they were.
C18_HandleDropIsInert ==
    /\ [](/\ \A h \in Handles : h[2] > 0 => hdelegate[h] = NoDelegate
          /\ plain.delegate = NoDelegate)
    /\ [][/\ \A h \in Handles :
                hstate[h] = "live" /\ hstate'[h] = "dropped" /\ h[2] > 0 =>
                   /\ superview' = superview
                   /\ slot' = slot
                   /\ heap' = heap
                   /\ dropCount' = dropCount
          /\ plain.state = "live" /\ plain'.state = "dropped" =>
                   /\ plain'.superview = plain.superview
                   /\ superview' = superview
                   /\ slot' = slot
                   /\ heap' = heap
                   /\ dropCount' = dropCount]_vars

\* the handle made by new() and a clone of the text field made by with(..)
\* were dropped while their views sat in a parent
C18_Witness ==
    /\ plain.state = "dropped"
    /\ plain.superview = "parent"
    /\ hstate[<<"textfield", 1>>] = "dropped"
    /\ hstate[Owner("textfield")] = "live"
    /\ superview["tf"] = "parent"
    /\ slot["rstTextFieldDelegatePtr"] = "box_tf"
    /\ heap["box_tf"] = "live"

-----------------------------------------------------------------------------
(***************************************************************************)
(* Properties of the row vendor                                            *)
(***************************************************************************)
\* C11: dequeue asks the host reuse pool first. When the host returned a
\* view, dequeue returns a row handle on that same host object, invokes no
\* factory, allocates no host row and attaches no callback. A factory is
\* invoked only when the host returned nil, and then once per dequeue.
C11_PoolBeforeFactory ==
    last.op = "dequeue" =>
        /\ last.cell # NilCell =>
              /\ last.outcome = "cached"
              /\ last.row = last.cell
              /\ last.invoked = <<>>
              /\ ~last.allocated
              /\ ~last.stored
        /\ last.invoked # <<>> =>
              /\ last.cell = NilCell
              /\ Len(last.invoked) = 1

\* a row made by a factory came back from the host pool
C11_Witness ==
    /\ last.op = "dequeue"
    /\ last.cell \in RowIds
    /\ last.outcome = "cached"
    /\ rows[last.cell].callback = BoxOfRow(last.cell)

\* C12: a dequeue with an identifier that was never registered on that
\* handle, the host pool holding no view for it, fails with
\* UnknownRowIdentifier: no row handle is returned, no factory is invoked,
\* no host row is allocated and the Row-Vendor Maps are left as they were.
C12_UnknownIdentifierFails ==
    /\ [](last.op = "dequeue" /\ ~last.own /\ last.cell = NilCell =>
             /\ last.outcome = "UnknownRowIdentifier"
             /\ last.row = NilCell
             /\ last.invoked = <<>>
             /\ ~last.allocated
             /\ ~last.stored)
    /\ [][last' # last /\ last'.op = "dequeue"
             /\ last'.outcome = "UnknownRowIdentifier" =>
                /\ cellMaps' = cellMaps
                /\ mapOf' = mapOf
                /\ rows' = rows]_vars

\* an unknown identifier was asked of a handle that has another one registered
C12_Witness ==
    /\ last.op = "dequeue"
    /\ last.outcome = "UnknownRowIdentifier"
    /\ cellMaps[mapOf[last.k]] # EmptyMap
    /\ cellMaps[mapOf[last.k]][last.id] = NoFactory

\* C13: when dequeue::<R> falls back to the factory and the factory
\* registered for the identifier produces a callback owner whose type is
\* not R, the dequeue fails with RowTypeMismatch: no row handle is
\* returned, no host row is allocated and no callback is stored in a slot.
C13_TypeMismatchFails ==
    /\ [](last.op = "dequeue" /\ last.invoked # <<>>
             /\ ProducedType(last.invoked[1]) # last.R =>
                /\ last.outcome = "RowTypeMismatch"
                /\ last.row = NilCell
                /\ ~last.allocated
                /\ ~last.stored)
    /\ [][last' # last /\ last'.op = "dequeue"
             /\ last'.outcome = "RowTypeMismatch" => rows' = rows]_vars

\* the factory ran and produced the other type
C13_Witness ==
    /\ last.op = "dequeue"
    /\ last.outcome = "RowTypeMismatch"
    /\ last.invoked = <<cellMaps[mapOf[last.k]][last.id]>>
    /\ ProducedType(last.invoked[1]) # last.R

\* C19 (as claimed): keys are unique and a value is never changed after
\* insertion: a register of an identifier that has an entry leaves that
\* entry as it was (so that a later factory-path dequeue still invokes the
\* factory registered first), and leaves all other entries unchanged.
C19_ValueNeverReplaced ==
    [][last' # last /\ last'.op = "register" =>
          \A m \in MapIds, i \in Identifiers :
             cellMaps[m][i] # NoFactory => cellMaps'[m][i] = cellMaps[m][i]]_vars

\* C19 (amended): keys are unique and register replaces: after
\* register(I, f1) and register(I, f2) on the same handle the map holds one
\* entry for I, the factory registered last, and a factory-path dequeue(I)
\* invokes the factory the map holds at that time; a register leaves the
\* entries of all other identifiers, and all other maps, unchanged.
C19_RegisterReplaces ==
    /\ [][last' # last /\ last'.op = "register" =>
             LET m == mapOf[last'.k]
             IN /\ cellMaps'[m][last'.id] = last'.f
                /\ last'.old = cellMaps[m][last'.id]
                /\ \A n \in MapIds, i \in Identifiers :
                      (n # m \/ i # last'.id) => cellMaps'[n][i] = cellMaps[n][i]]_vars
    /\ [][last' # last /\ last'.op = "dequeue" /\ last'.invoked # <<>> =>
             last'.invoked = <<cellMaps[mapOf[last'.k]][last'.id]>>]_vars

\* an identifier registered with f1 was registered again with f2, while
\* the other identifier keeps its entry
C19_Witness ==
    /\ last.op = "register"
    /\ last.old = "f1"
    /\ last.f = "f2"
    /\ cellMaps[mapOf[last.k]][last.id] = "f2"
    /\ \E i \in Identifiers \ {last.id} : cellMaps[mapOf[last.k]][i] = "f1"

\* C20: the Row-Vendor Map is per handle: clone_as_handle gives the clone a
\* fresh empty map of its own, so a register on the clone never changes the
\* owner's map (the one whose address is in the cell-vendor slot); a
\* factory-path dequeue on a handle succeeds only for an identifier that
\* was registered through that same handle, and an identifier registered
\* on the owner only fails as unknown when dequeued through the clone.
C20_MapPerHandle ==
    /\ [](mapOf["clone"] # NoMap => mapOf["clone"] # OwnerMap)
    /\ [][mapOf["clone"] = NoMap /\ mapOf'["clone"] # NoMap =>
             cellMaps'[mapOf'["clone"]] = EmptyMap]_vars
    /\ [][cellMaps'["owner"] # cellMaps["owner"] =>
             last' # last /\ last'.op = "register" /\ last'.k = "owner"]_vars
    /\ [](last.op = "dequeue" /\ last.outcome = "created" => last.own)
    /\ [](last.op = "dequeue" /\ last.cell = NilCell /\ ~last.own =>
             last.outcome = "UnknownRowIdentifier")

\* the clone registered an identifier of its own, and a dequeue through it
\* of the identifier the owner registered failed as unknown
C20_Witness ==
    /\ last.op = "dequeue"
    /\ last.k = "clone"
    /\ last.outcome = "UnknownRowIdentifier"
    /\ cellMaps["owner"][last.id] # NoFactory
    /\ mapOf["clone"] # NoMap
    /\ cellMaps[mapOf["clone"]] # EmptyMap

-----------------------------------------------------------------------------
(***************************************************************************)
(* Properties of batch updates                                             *)
(***************************************************************************)
\* C14: perform_batch_updates brackets its closure with beginUpdates and
\* endUpdates, once each and properly nested, on every exit path of the
\* closure: the update groups the host has open are exactly those of the
\* closures still running, so no beginUpdates is left unmatched.
C14_UpdatesBalanced == hostUpdates = Len(batchStack)

-----------------------------------------------------------------------------
(***************************************************************************)
(* Properties of the file manager                                          *)
(***************************************************************************)
\* C16: a file-manager operation returns Err exactly when the host reported
\* failure: move_item when the host's move returned the failure indicator,
\* get_directory when the host could not resolve the directory; after a
\* host failure it neither returns Ok nor crashes.
C16_HostFailureIsErr ==
    fsLast.op # "none" => (fsLast.hostFailed <=> fsLast.outcome = "Err")

-----------------------------------------------------------------------------
ParkedLists == InitWidget /\ InitVendor /\ InitBatch
Parked == ParkedRegistry /\ ParkedBridge /\ ParkedLists /\ ParkedFile
InitSpecRegistry == InitRegistry /\ ParkedBridge /\ ParkedLists /\ ParkedFile
InitSpecBridge == ParkedRegistry /\ InitBridge /\ ParkedLists /\ ParkedFile
InitSpecWidget == Parked
InitSpecVendor == Parked
InitSpecBatch == Parked
InitSpecHandles == Parked
InitSpecFile == ParkedRegistry /\ ParkedBridge /\ ParkedLists /\ InitFile

SpecRegistry == InitSpecRegistry /\ [][NextRegistry]_vars
SpecBridge == InitSpecBridge /\ [][NextBridge]_vars
SpecWidget == InitSpecWidget /\ [][NextWidget]_vars
SpecHandles == InitSpecHandles /\ [][NextHandles]_vars
SpecVendor == InitSpecVendor /\ [][NextVendor]_vars
SpecBatch == InitSpecBatch /\ [][NextBatch]_vars
SpecFile == InitSpecFile /\ [][NextFile]_vars

====
